---- MODULE Spec2Model ----
(***************************************************************************)
(* Turn engine of rpg-ai-game (backend/app/api/routes/games.py): one game, *)
(* its players and its history, driven by the HTTP handlers create_game,   *)
(* create_player, roll_initiative, play_ai_turn, play_player_turn and the  *)
(* two read handlers.  Every handler runs to completion (one action per    *)
(* request); the narrator's reply, the dice and the request bodies are the *)
(* inputs, drawn from small sets.                                          *)
(***************************************************************************)
EXTENDS Integers, Sequences, FiniteSets, TLC

VARIABLES
    game,      \* the Game row
    players,   \* the Player rows of the game, in creation order
    history,   \* the History rows of the game, in creation order
    created,   \* how many Player rows were ever created (an id is never reused)
    inflight,  \* the requests that are suspended at an await, by request
    lastOp,    \* the last request
    input,     \* what it came with: the option_id of a player_turn, the dice of a roll
    status,    \* the HTTP status it was answered with
    GAMES,     \* main.py's in-memory engine: the game of GAMES that is followed
    driver     \* test_backend.py's main: its position and the locals of its retry loop

vars ==
    <<game, players, history, created, inflight, lastOp, input, status, GAMES, driver>>

(***************************************************************************)
(* Bounds of the model.                                                    *)
(***************************************************************************)
MaxPlayers == 2
MaxHistory == 5
MaxPenalty == 100
MaxTurns == 2
MaxRequests == 6

(***************************************************************************)
(* Inputs.                                                                 *)
(***************************************************************************)
None == 0

\* random.randint(1, 20): two faces of the die
Draws == {8, 10}

\* random.randint(1, 100): the two faces around the middle
Rolls == {50, 51}

\* Player.stats of a request body: with or without a "dexterity" key
NoStats == [k \in {} |-> 0]

StatsChoices == {NoStats, [k \in {"dexterity"} |-> 5]}

\* GameSchema.turn of a POST /game body
GameTurns == {0, 1}

(***************************************************************************)
(* Narration texts.  A text is kept with the properties the engine reads   *)
(* from it: whether it has upper-case letters (str.lower() removes them),  *)
(* and whether it is the empty string.                                     *)
(***************************************************************************)
Text(kind, n, who, opt, desc, ok, upper) ==
    [kind |-> kind, n |-> n, who |-> who, opt |-> opt, desc |-> desc,
     ok |-> ok, upper |-> upper]

Story(n, upper) == Text("story", n, None, 0, "", TRUE, upper)

\* the empty string
Blank == Text("blank", 0, None, 0, "", TRUE, FALSE)

\* if content:
HasContent(t) == t.kind # "blank"

\* str.lower()
Lower(t) == [t EXCEPT !.upper = FALSE]

\* the turn-0 prompt, which ends by naming the current player
Prompt(who) == Text("prompt", 0, who, 0, "", TRUE, TRUE)

\* "<name> choisit l'option <id>: <description>. C'est un succès !" / "... échec..."
ChoiceText(who, opt, desc, ok) == Text("choice", 0, who, opt, desc, ok, TRUE)

(***************************************************************************)
(* Options.  Rates and changes are in hundredths (0.5 is 50).              *)
(***************************************************************************)
Opt(id, desc, rate) ==
    [id |-> id, description |-> desc, success_rate |-> rate,
     health_point_change |-> 0, mana_point_change |-> 0]

\* an option that changes the player's health and mana
OptWith(id, desc, rate, hp, mp) ==
    [id |-> id, description |-> desc, success_rate |-> rate,
     health_point_change |-> hp, mana_point_change |-> mp]

OptionLists ==
    { <<>>,
      << Opt(1, "attack", 100) >>,
      << Opt(1, "attack", 50), Opt(2, "flee", 0), Opt(3, "", 100) >>,
      << Opt(1, "attack", 150) >> }

\* Option: Field(ge=0.0, le=1.0) and Field(ge=-1.0, le=1.0)
OptionValid(o) ==
    /\ o.success_rate >= 0 /\ o.success_rate <= 100
    /\ o.health_point_change >= -100 /\ o.health_point_change <= 100
    /\ o.mana_point_change >= -100 /\ o.mana_point_change <= 100

\* AIResponseValidator: a narration and a list of valid options, possibly empty
ResponseValid(msg) == \A i \in 1..Len(msg.options) : OptionValid(msg.options[i])

(***************************************************************************)
(* Entity store: rows are kept in creation order.                          *)
(***************************************************************************)
NoGame ==
    [exists |-> FALSE, actual_turn |-> 0, active |-> TRUE,
     current_player_id |-> None, phase |-> "AI", successed_turns |-> 0]

\* crud.get_history_by_game: the game's entries in creation order
get_history_by_game(h) == h

\* crud.create_history_entry: add and commit
create_history_entry(h, entry) == Append(h, entry)

\* crud.update_player on every player of `updated`: rows keep their place
update_players(ps, updated) ==
    [i \in 1..Len(ps) |->
        LET j == CHOOSE k \in 1..Len(updated) : updated[k].id = ps[i].id
        IN  updated[j]]

\* models.History(...)
Entry(player_id, role, narration, options) ==
    [player_id |-> player_id, action_role |-> role, success |-> TRUE,
     narration |-> narration, options |-> options]

\* next((p for p in players if p.id == game.current_player_id), None) is not None
HasPlayer(ps, id) == \E i \in 1..Len(ps) : ps[i].id = id

\* next((p for p in players if p.id == game.current_player_id), None)
FindPlayer(ps, id) ==
    LET i == CHOOSE k \in 1..Len(ps) :
                 /\ ps[k].id = id
                 /\ \A m \in 1..(k - 1) : ps[m].id # id
    IN  ps[i]

(***************************************************************************)
(* sorted(seq, key=..., reverse=...): Python's sort is stable, also when   *)
(* reversed.  SortIdx gives the positions of the first k elements in       *)
(* sorted order, by insertion after every element that does not come later.*)
(***************************************************************************)
\* a sort that puts an element before its equals
RECURSIVE InsertIdxUnstable(_, _, _, _)
InsertIdxUnstable(out, i, keys, reverse) ==
    IF out = <<>> THEN <<i>>
    ELSE LET j == Head(out)
             stays == IF reverse THEN keys[j] > keys[i] ELSE keys[j] < keys[i]
         IN  IF stays THEN <<j>> \o InsertIdxUnstable(Tail(out), i, keys, reverse)
             ELSE <<i>> \o out

RECURSIVE InsertIdx(_, _, _, _)
InsertIdx(out, i, keys, reverse) ==
    IF out = <<>> THEN <<i>>
    ELSE LET j == Head(out)
             stays == IF reverse THEN keys[j] >= keys[i] ELSE keys[j] <= keys[i]
         IN  IF stays THEN <<j>> \o InsertIdx(Tail(out), i, keys, reverse)
             ELSE <<i>> \o out

RECURSIVE SortIdx(_, _, _)
SortIdx(k, keys, reverse) ==
    IF k = 0 THEN <<>>
    ELSE InsertIdx(SortIdx(k - 1, keys, reverse), k, keys, reverse)

sorted(seq, keys, reverse) ==
    LET idx == SortIdx(Len(seq), keys, reverse)
    IN  [r \in 1..Len(seq) |-> seq[idx[r]]]

(***************************************************************************)
(* roll_initiative                                                         *)
(***************************************************************************)
\* player.stats.get(key, default)
StatsGet(stats, key, default) == IF key \in DOMAIN stats THEN stats[key] ELSE default

\* random.randint(1, 20) + player.stats.get("dexterity", 0)
InitiativeOf(draw, stats) == draw + StatsGet(stats, "dexterity", 0)

\* for player in players: player.initiative = ...
WithInitiative(ps, draws) ==
    [i \in 1..Len(ps) |->
        [ps[i] EXCEPT !.initiative = InitiativeOf(draws[i], ps[i].stats)]]

\* sorted(players, key=lambda p: p.initiative, reverse=True)
SortByInitiative(ps) ==
    sorted(ps, [i \in 1..Len(ps) |-> ps[i].initiative], TRUE)

\* player.order = index
WithOrderFromZero(ps) == [i \in 1..Len(ps) |-> [ps[i] EXCEPT !.order = i - 1]]

\* for index, player in enumerate(players): player.order = index + 1
WithOrder(ps) == [i \in 1..Len(ps) |-> [ps[i] EXCEPT !.order = (i - 1) + 1]]

\* game.current_player_id = players[-1].id
LastPlayerId(ps) == ps[Len(ps)].id

\* game.current_player_id = players[0].id
FirstPlayerId(ps) == ps[1].id

\* the list roll_initiative returns: the players by descending initiative
RolledPlayers(ps, draws) == WithOrder(SortByInitiative(WithInitiative(ps, draws)))

\* sorted(players, key=lambda p: p.order)
SortByOrder(ps) == sorted(ps, [i \in 1..Len(ps) |-> ps[i].order], FALSE)

\* players_sorted[min(current_index + 1, len(players_sorted) - 1)].id
NextPlayerIdNoWrap(ps, id) ==
    LET s == SortByOrder(ps)
        i == CHOOSE k \in 1..Len(s) :
                 /\ s[k].id = id
                 /\ \A m \in 1..(k - 1) : s[m].id # id
    IN  s[IF i = Len(s) THEN i ELSE i + 1].id

\* players_sorted[(current_index + 1) % len(players_sorted)].id
NextPlayerId(ps, id) ==
    LET s == SortByOrder(ps)
        i == CHOOSE k \in 1..Len(s) :
                 /\ s[k].id = id
                 /\ \A m \in 1..(k - 1) : s[m].id # id
    IN  s[(i % Len(s)) + 1].id

\* what a handler leaves in the store, and the HTTP status it answers with
Res(code, g, ps, h) == [status |-> code, game |-> g, players |-> ps, history |-> h]

\* roll_initiative(game_id)
roll_initiative(g, ps, h, draws) ==
    IF ~g.exists THEN Res(404, g, ps, h)
    ELSE IF ps = <<>> THEN Res(404, g, ps, h)
    ELSE LET rolled == RolledPlayers(ps, draws)
         IN  Res(200, [g EXCEPT !.current_player_id = FirstPlayerId(rolled)],
                 update_players(ps, rolled), h)

(***************************************************************************)
(* The narrator (client.chat).  A reply is the raw text by what the parsers*)
(* make of it: "json" is a JSON object, "pyliteral" a Python dict literal  *)
(* that is not JSON, "garbage" neither; "raise" is a call that raises.     *)
(***************************************************************************)
Reply(format, narration, options) ==
    [format |-> format, narration |-> narration, options |-> options]

\* the narrator writes a story of its own, or repeats in lower case the text it
\* was last sent
Narrations(h) ==
    {Story(1, FALSE), Story(2, FALSE)}
        \cup (IF h = <<>> THEN {} ELSE {Lower(h[Len(h)].narration)})

NarratorReplies(h) ==
    {Reply("raise", Story(1, FALSE), <<>>),
     Reply("garbage", Story(1, FALSE), <<>>),
     Reply("pyliteral", Story(2, FALSE), << Opt(1, "attack", 100) >>)}
        \cup {Reply("json", n, o) : n \in Narrations(h), o \in OptionLists}

\* game.scenario is there, unless the authoring API has removed the scenario
Calls(h) ==
    {<<TRUE, r>> : r \in NarratorReplies(h)}
        \cup {<<FALSE, Reply("json", Story(2, FALSE), << Opt(1, "attack", 100) >>)>>}

\* models.AIResponseValidator.model_validate_json(raw)
ValidateJson(reply) == reply.format = "json" /\ ResponseValid(reply)

\* models.AIResponseValidator.model_validate(ast.literal_eval(raw))
ValidateLiteral(reply) == reply.format \in {"json", "pyliteral"} /\ ResponseValid(reply)

(***************************************************************************)
(* play_ai_turn                                                            *)
(***************************************************************************)
\* game.actual_turn += 1; game.phase = models.Phase.PLAYER
AfterAiTurnZero(g) == [g EXCEPT !.actual_turn = @ + 1, !.phase = "PLAYER"]

\* the narrator's entry with result["narration"] = ai_message.narration.lower()
NarratorEntryLowered(g, reply) ==
    Entry(g.current_player_id, "ASSISTANT", Lower(reply.narration), reply.options)

\* the narrator's entry: models.History(player_id=game.current_player_id, ...)
NarratorEntry(g, reply) ==
    Entry(g.current_player_id, "ASSISTANT", reply.narration, reply.options)

\* the first turn, with the game updated before the narrator is called
AiTurnZeroEagerUpdate(g, ps, h, scenario, reply) ==
    IF ~scenario THEN Res(404, g, ps, h)
    ELSE IF ~HasPlayer(ps, g.current_player_id) THEN Res(500, g, ps, h)
    ELSE LET h1 == create_history_entry(
                       h, Entry(None, "USER", Prompt(g.current_player_id), <<>>))
             g1 == AfterAiTurnZero(g)
         IN  IF reply.format = "raise" THEN Res(500, g1, ps, h1)
             ELSE IF ~ValidateJson(reply) THEN Res(500, g1, ps, h1)
             ELSE Res(200, g1, ps, create_history_entry(h1, NarratorEntry(g, reply)))

\* the first turn without the check of the current player
AiTurnZeroAnyPlayer(g, ps, h, scenario, reply) ==
    IF ~scenario THEN Res(404, g, ps, h)
    ELSE LET h1 == create_history_entry(
                       h, Entry(None, "USER", Prompt(g.current_player_id), <<>>))
         IN  IF reply.format = "raise" THEN Res(500, g, ps, h1)
             ELSE IF ~ValidateJson(reply) THEN Res(500, g, ps, h1)
             ELSE Res(200, AfterAiTurnZero(g), ps,
                      create_history_entry(h1, NarratorEntry(g, reply)))

\* the first turn (game.actual_turn == 0)
AiTurnZero(g, ps, h, scenario, reply) ==
    IF ~scenario THEN Res(404, g, ps, h)
    ELSE IF ~HasPlayer(ps, g.current_player_id) THEN Res(500, g, ps, h)
    ELSE LET h1 == create_history_entry(
                       h, Entry(None, "USER", Prompt(g.current_player_id), <<>>))
         IN  IF reply.format = "raise" THEN Res(500, g, ps, h1)
             ELSE IF ~ValidateJson(reply) THEN Res(500, g, ps, h1)
             ELSE Res(200, AfterAiTurnZero(g), ps,
                      create_history_entry(h1, NarratorEntry(g, reply)))

\* the narration is the same as history_entries[-1]'s, case aside
RepeatsLast(entries, reply) ==
    Lower(reply.narration) = Lower(entries[Len(entries)].narration)

\* the same without game.actual_turn += 1
AfterAiTurnNextSameTurn(g, ps) ==
    [g EXCEPT !.phase = "PLAYER",
              !.current_player_id = NextPlayerId(ps, g.current_player_id)]

\* game.actual_turn += 1; game.phase = PLAYER; then the next player by order
AfterAiTurnNext(g, ps) ==
    [g EXCEPT !.actual_turn = @ + 1,
              !.phase = "PLAYER",
              !.current_player_id = NextPlayerId(ps, g.current_player_id)]

\* messages: for entry in history_entries: ... if content: messages.append(...);
\* the content of the last entry has the instructions appended
Messages(entries) ==
    LET numbered == [i \in 1..Len(entries) |-> [at |-> i, entry |-> entries[i]]]
        kept == SelectSeq(numbered, LAMBDA x : HasContent(x.entry.narration))
    IN  [k \in 1..Len(kept) |->
            [role |-> kept[k].entry.action_role,
             content |-> kept[k].entry.narration,
             instructions |-> kept[k].at = Len(entries)]]

\* the last message is built from the last entry: game.scenario is read
AsksScenario(entries) ==
    entries # <<>> /\ HasContent(entries[Len(entries)].narration)

\* the later turns (game.actual_turn != 0)
AiTurnNext(g, ps, h, scenario, reply) ==
    LET entries == get_history_by_game(h)
    IN  IF AsksScenario(entries) /\ ~scenario THEN Res(404, g, ps, h)
        ELSE IF reply.format = "raise" THEN Res(500, g, ps, h)
        ELSE IF ~(ValidateJson(reply) \/ ValidateLiteral(reply)) THEN Res(500, g, ps, h)
        ELSE IF entries = <<>> THEN Res(500, g, ps, h)
        ELSE IF RepeatsLast(entries, reply) THEN Res(500, g, ps, h)
        ELSE LET h1 == create_history_entry(h, NarratorEntry(g, reply))
             IN  IF ~HasPlayer(ps, g.current_player_id) THEN Res(500, g, ps, h1)
                 ELSE Res(200, AfterAiTurnNext(g, ps), ps, h1)

\* no check of the phase
AnyPhase(g) == TRUE

\* if game.phase == "AI" and game.active
IsAiPhaseWhileActive(g) == g.phase = "AI" /\ g.active

\* if game.phase == "AI"
IsAiPhase(g) == g.phase = "AI"

\* play_ai_turn(game_id)
play_ai_turn(g, ps, h, scenario, reply) ==
    IF ~g.exists THEN Res(404, g, ps, h)
    ELSE IF IsAiPhase(g)
         THEN IF g.actual_turn = 0 THEN AiTurnZero(g, ps, h, scenario, reply)
              ELSE AiTurnNext(g, ps, h, scenario, reply)
         ELSE Res(400, g, ps, h)

(***************************************************************************)
(* play_player_turn                                                        *)
(***************************************************************************)
\* for option in options: if option.get("id") == option_id: ... break
HasOption(options, option_id) == \E i \in 1..Len(options) : options[i].id = option_id

ChosenOption(options, option_id) ==
    LET i == CHOOSE k \in 1..Len(options) :
                 /\ options[k].id = option_id
                 /\ \A m \in 1..(k - 1) : options[m].id # option_id
    IN  options[i]

(***************************************************************************)
(* int(option_success_rate * 100) in Python's floats (IEEE 754 binary64,   *)
(* round to nearest, ties to even).  A rate of k hundredths is the float   *)
(* nearest to k/100, m * 2^-s with m of 53 bits; the product 100 * m is    *)
(* k * 2^s + err exactly, and it is rounded to 53 bits again.  The floats  *)
(* around k are a whole number of 2^-s apart, so what the rounding gives   *)
(* follows from err alone, and err from k * 2^s modulo 100.                *)
(***************************************************************************)
\* the stored bits of a float's fraction: sys.float_info.mant_dig - 1
MantissaBits == 52

RECURSIVE Pow2(_)
Pow2(n) == IF n = 0 THEN 1 ELSE 2 * Pow2(n - 1)

\* 2^n modulo m
RECURSIVE Pow2Mod(_, _)
Pow2Mod(n, m) == IF n = 0 THEN 1 % m ELSE (2 * Pow2Mod(n - 1, m)) % m

\* floor(log2(k)), for k >= 1
RECURSIVE Log2(_)
Log2(k) == IF k < 2 THEN 0 ELSE 1 + Log2(k \div 2)

\* -floor(log2(k/100)), for 1 <= k <= 100: the least n with k * 2^n >= 100
RECURSIVE Halvings(_, _)
Halvings(k, n) == IF k * Pow2(n) >= 100 THEN n ELSE Halvings(k, n + 1)

\* 100 * m - k * 2^s for the float m * 2^-s nearest to k/100 (no tie happens:
\* k * 2^s is a multiple of 4 and 50 is not)
RateError(k) ==
    LET s == MantissaBits + Halvings(k, 0)
        rem == (k * Pow2Mod(s, 100)) % 100
    IN  IF rem < 50 THEN 0 - rem ELSE 100 - rem

\* half the gap, in units of 2^-s, between the float k and the float below it
HalfGapBelow(k) ==
    LET gap == Pow2(Log2(k) + Halvings(k, 0))
    IN  IF Pow2(Log2(k)) = k THEN gap \div 4 ELSE gap \div 2

\* int(option_success_rate * 100): the product rounds below k when it is nearer
\* to the float below k (a tie rounds to k, whose last bit is 0), and int() then
\* truncates to k - 1
Threshold(rate) ==
    IF rate = 0 THEN 0
    ELSE IF RateError(rate) < 0 /\ 0 - RateError(rate) > HalfGapBelow(rate)
         THEN rate - 1
         ELSE rate

\* roll <= option_success_rate
Succeeds(roll, rate) == roll <= Threshold(rate)

\* if game.phase != models.Phase.PLAYER
NotPlayerPhase(g) == g.phase # "PLAYER"

\* the options of every entry, the latest first
RECURSIVE OptionsOfAllEntries(_)
OptionsOfAllEntries(entries) ==
    IF entries = <<>> THEN <<>>
    ELSE entries[Len(entries)].options
             \o OptionsOfAllEntries(SubSeq(entries, 1, Len(entries) - 1))

\* the options the choice is looked up in: last_entry.result.get("options", [])
PendingOptions(entries) == entries[Len(entries)].options

\* the same without game.phase = models.Phase.AI
AfterPlayerTurnSamePhase(g, ps, actual, success) ==
    [g EXCEPT !.current_player_id = NextPlayerId(ps, actual.id),
              !.successed_turns = IF success THEN @ + 1 ELSE @]

\* the same with game.successed_turns += 1 whatever the outcome
AfterPlayerTurnAlwaysCounts(g, ps, actual, success) ==
    [g EXCEPT !.phase = "AI",
              !.current_player_id = NextPlayerId(ps, actual.id),
              !.successed_turns = @ + 1]

\* game.phase = AI; the next player by order; successed_turns += 1 on a success
AfterPlayerTurn(g, ps, actual, success) ==
    [g EXCEPT !.phase = "AI",
              !.current_player_id = NextPlayerId(ps, actual.id),
              !.successed_turns = IF success THEN @ + 1 ELSE @]

\* the player's entry: models.History(player_id=actual_player.id, ...)
PlayerEntry(actual, option_id, option, success) ==
    Entry(actual.id, "USER",
          ChoiceText(actual.id, option_id, option.description, success), <<>>)

\* play_player_turn(game_id, turn_data)
play_player_turn(g, ps, h, option_id, roll) ==
    IF ~g.exists THEN Res(404, g, ps, h)
    ELSE IF NotPlayerPhase(g) THEN Res(400, g, ps, h)
    ELSE IF ~HasPlayer(ps, g.current_player_id) THEN Res(500, g, ps, h)
    ELSE LET entries == get_history_by_game(h)
         IN  IF entries = <<>> THEN Res(404, g, ps, h)
             ELSE LET options == PendingOptions(entries)
                  IN  IF ~HasOption(options, option_id) THEN Res(400, g, ps, h)
                      ELSE IF ChosenOption(options, option_id).description = ""
                           THEN Res(400, g, ps, h)
                      ELSE LET actual == FindPlayer(ps, g.current_player_id)
                               option == ChosenOption(options, option_id)
                               success == Succeeds(roll, option.success_rate)
                           IN  Res(200, AfterPlayerTurn(g, ps, actual, success), ps,
                                   create_history_entry(
                                       h, PlayerEntry(actual, option_id, option,
                                                      success)))

(***************************************************************************)
(* The handlers cut short.  Every crud call commits on its own and the     *)
(* session is closed without a commit, so a handler that stops leaves in   *)
(* the store what it had committed by then.                                *)
(***************************************************************************)
\* no answer reaches the caller
NoAnswer == 0

\* play_player_turn when crud.update_game does not complete: the entry is in
\* the history, the changes of the game object are lost
play_player_turn_cut(g, ps, h, option_id, roll) ==
    LET res == play_player_turn(g, ps, h, option_id, roll)
    IN  IF res.status = 200 THEN Res(500, g, ps, res.history) ELSE res

\* play_ai_turn gets as far as client.chat
ReachesNarrator(g, ps, h, scenario) ==
    /\ g.exists
    /\ IsAiPhase(g)
    /\ IF g.actual_turn = 0
       THEN scenario /\ HasPlayer(ps, g.current_player_id)
       ELSE ~AsksScenario(get_history_by_game(h)) \/ scenario

\* play_ai_turn while client.chat has not returned (there is no timeout)
play_ai_turn_awaiting(g, ps, h) ==
    IF g.actual_turn = 0
    THEN Res(NoAnswer, g, ps,
             create_history_entry(
                 h, Entry(None, "USER", Prompt(g.current_player_id), <<>>)))
    ELSE Res(NoAnswer, g, ps, h)

(***************************************************************************)
(* delete_player.  Game.current_player_id is a plain column, no foreign    *)
(* key; History.player_id is a nullable foreign key of a relationship      *)
(* without delete cascade, which the session sets to NULL on the delete.   *)
(***************************************************************************)
\* the rows of ps but the player's
RECURSIVE WithoutPlayer(_, _)
WithoutPlayer(ps, id) ==
    IF ps = <<>> THEN <<>>
    ELSE IF Head(ps).id = id THEN WithoutPlayer(Tail(ps), id)
    ELSE <<Head(ps)>> \o WithoutPlayer(Tail(ps), id)

\* History.player_id of the player's entries becomes NULL
WithoutAuthor(h, id) ==
    [i \in 1..Len(h) |->
        IF h[i].player_id = id THEN [h[i] EXCEPT !.player_id = None] ELSE h[i]]

\* delete_player(player_id)
delete_player(g, ps, h, player_id) ==
    IF ~HasPlayer(ps, player_id) THEN Res(404, g, ps, h)
    ELSE Res(204, g, WithoutPlayer(ps, player_id), WithoutAuthor(h, player_id))

(***************************************************************************)
(* Requests in flight.  A handler is suspended at each await of a crud     *)
(* call; it works on the Game object and the players its own session has   *)
(* loaded (expire_on_commit=False), and nothing orders the requests of one *)
(* game.                                                                   *)
(***************************************************************************)
Requests == {1, 2}

\* a request that is not in flight
Idle ==
    [pc |-> "idle", game |-> NoGame, players |-> <<>>, history |-> <<>>,
     option_id |-> 0, entry |-> Entry(None, "USER", Prompt(None), <<>>),
     after |-> NoGame]

\* crud.update_game: the columns the handler has changed on its Game object
update_game(stored, before, after) ==
    [f \in DOMAIN stored |-> IF after[f] # before[f] THEN after[f] ELSE stored[f]]

\* a request is let in only when no other request is in flight
AdmitsOneByOne(fl, r) == \A q \in Requests : fl[q].pc = "idle"

\* the router lets a request in: there is no lock and no queue by game
Admits(fl, r) == fl[r].pc = "idle"

\* play_player_turn up to its first read of the history: game found, phase
\* PLAYER, current player found
PassesChecks(g, ps) ==
    g.exists /\ ~NotPlayerPhase(g) /\ HasPlayer(ps, g.current_player_id)

(***************************************************************************)
(* The in-memory engine (backend/app/main.py): the dictionaries SCENARIOS  *)
(* and GAMES, with one scenario and one game followed.  Rates and changes  *)
(* are in hundredths, hp and mp in points.                                 *)
(***************************************************************************)
\* the scenario of the game: Scenario(max_players=..., roles={...})
Scenario == [max_players |-> MaxPlayers, roles |-> {"scout", "medic"}]

\* class Character
Character(player_id, role, stats, hp, mp) ==
    [player_id |-> player_id, role |-> role, stats |-> stats, hp |-> hp, mp |-> mp]

\* no game in GAMES
NoGames == [exists |-> FALSE, players |-> <<>>, turn |-> 0, history |-> <<>>]

\* an answer: the status, and GAMES after the request
Out(code, g) == [status |-> code, game |-> g]

\* create_game(req)
create_game(g, scenario_found, initial_players) ==
    IF ~scenario_found THEN Out(404, g)
    ELSE IF Len(initial_players) > Scenario.max_players THEN Out(400, g)
    ELSE Out(201, [exists |-> TRUE, players |-> initial_players,
                   turn |-> 0, history |-> <<>>])

\* the game is full only beyond the scenario's maximum
IsOverfull(g) == Len(g.players) > Scenario.max_players

\* if len(game.players) >= scenario.max_players
IsFull(g) == Len(g.players) >= Scenario.max_players

\* join_game(game_id, character)
join_game(g, character) ==
    IF ~g.exists THEN Out(404, g)
    ELSE IF IsFull(g) THEN Out(400, g)
    ELSE IF character.role \notin Scenario.roles THEN Out(400, g)
    ELSE Out(200, [g EXCEPT !.players = Append(@, character)])

\* class Option, as opt.model_dump() stores it
StoredOption(id, rate, hp, mp, stat) ==
    [id |-> id, success_rate |-> rate, health_point_change |-> hp,
     mana_point_change |-> mp, related_stat |-> stat]

\* AIResponse.model_validate_json(raw_response): "json" is a JSON object;
\* class AIResponse and its Option have the constraints of AIResponseValidator
ParsesStrict(reply) == reply.format = "json" /\ ResponseValid(reply)

\* re.search(r'\{.*\}', raw_response, re.DOTALL): "wrapped" is a JSON object
\* with text around it, "pyliteral" has braces and is no JSON, "prose" has none
HasBraces(reply) == reply.format \in {"json", "wrapped", "pyliteral"}

\* AIResponse.model_validate_json(json_match.group(0))
ParsesSearched(reply) == reply.format \in {"json", "wrapped"} /\ ResponseValid(reply)

\* create_fallback_response(game, player, action)
create_fallback_response(player_id) ==
    Reply("json", Text("fallback", 0, player_id, 0, "", TRUE, TRUE),
          << StoredOption(1, 70, 0, 0, "intelligence"),
             StoredOption(2, 40, -10, 0, "courage") >>)

\* next((p for p in game.players if p.player_id == ...), None)
HasCharacter(ps, player_id) == \E i \in 1..Len(ps) : ps[i].player_id = player_id

FirstCharacter(ps, player_id) ==
    CHOOSE i \in 1..Len(ps) :
        /\ ps[i].player_id = player_id
        /\ \A j \in 1..(i - 1) : ps[j].player_id # player_id

\* no dice were rolled: dice_roll = None
NoRoll == [rolled |-> FALSE, roll |-> 0, success |-> FALSE]

\* game.history.append({...}) without game.turn += 1
RecordedSameTurn(g, player_id, parsed) ==
    [g EXCEPT !.history = Append(@, [actor |-> player_id,
                                     ai_narration |-> parsed.narration,
                                     options |-> parsed.options,
                                     chosen_option |-> None,
                                     dice_roll |-> NoRoll])]

\* game.history.append({...}); game.turn += 1
Recorded(g, player_id, parsed) ==
    [g EXCEPT !.history = Append(@, [actor |-> player_id,
                                     ai_narration |-> parsed.narration,
                                     options |-> parsed.options,
                                     chosen_option |-> None,
                                     dice_roll |-> NoRoll]),
              !.turn = @ + 1]

\* game_action(game_id, action)
game_action(g, player_id, reply) ==
    IF ~g.exists THEN Out(404, g)
    ELSE IF ~HasCharacter(g.players, player_id) THEN Out(400, g)
    ELSE IF reply.format = "raise" THEN Out(500, g)
    ELSE IF ParsesStrict(reply) THEN Out(200, Recorded(g, player_id, reply))
    ELSE IF HasBraces(reply)
         THEN IF ParsesSearched(reply)
              THEN Out(200, Recorded(g, player_id, reply))
              ELSE Out(500, g)
         ELSE Out(200, Recorded(g, player_id, create_fallback_response(player_id)))

\* next((opt for opt in last_action["options"] if int(opt["id"]) == option_id), None)
FirstOption(options, option_id) ==
    CHOOSE i \in 1..Len(options) :
        /\ options[i].id = option_id
        /\ \A j \in 1..(i - 1) : options[j].id # option_id

\* adjusted_success_rate < 0.5, with base_success_rate * (stat_value / 10)
RollsDice(rate, stat_value) == rate * stat_value < 500

\* roll >= (1 - adjusted_success_rate) * 20
RollSucceeds(roll, rate, stat_value) == 50 * roll >= 1000 - rate * stat_value

\* min(100, x)
ClampPointsAbove(x) == IF x > 100 THEN 100 ELSE x

\* max(0, min(100, x))
ClampPoints(x) == IF x < 0 THEN 0 ELSE IF x > 100 THEN 100 ELSE x

\* the chosen option after the dice: chosen_option["health_point_change"] *= 2
\* on a failed roll, on the dictionary that is in the history
PenaltyDoubled(option, failed) ==
    IF failed THEN [option EXCEPT !.health_point_change = 2 * @] ELSE option

\* choose_option(game_id, req)
choose_option(g, player_id, option_id, roll) ==
    IF ~g.exists THEN Out(404, g)
    ELSE IF ~HasCharacter(g.players, player_id) THEN Out(400, g)
    ELSE IF g.history = <<>> THEN Out(400, g)
    ELSE IF g.history[Len(g.history)].options = <<>> THEN Out(400, g)
    ELSE IF ~HasOption(g.history[Len(g.history)].options, option_id) THEN Out(400, g)
    ELSE LET last == g.history[Len(g.history)]
             k == FirstOption(last.options, option_id)
             p == FirstCharacter(g.players, player_id)
             player == g.players[p]
             stat_value == StatsGet(player.stats, last.options[k].related_stat, 10)
             rolled == RollsDice(last.options[k].success_rate, stat_value)
             success == RollSucceeds(roll, last.options[k].success_rate, stat_value)
             chosen == PenaltyDoubled(last.options[k], rolled /\ ~success)
         IN  Out(200,
                 [g EXCEPT
                     !.players[p].hp = ClampPoints(@ + chosen.health_point_change),
                     !.players[p].mp = ClampPoints(@ + chosen.mana_point_change),
                     !.history[Len(g.history)] =
                         [last EXCEPT
                             !.options[k] = chosen,
                             !.chosen_option = option_id,
                             !.dice_roll = IF rolled
                                           THEN [rolled |-> TRUE, roll |-> roll,
                                                 success |-> success]
                                           ELSE NoRoll]])

(***************************************************************************)
(* The driver (backend/app/test_backend.py): main at its retry loop        *)
(* `while not ai_play_success and ai_play_success_retry_count < 5`.        *)
(***************************************************************************)
RetryLimit == 5

\* ai_play_success: bool = False; ai_play_success_retry_count: int = 0;
\* sent counts the ai_turn requests the loop has posted
AtRetryLoop ==
    [pc |-> "ai_turn", ai_play_success |-> FALSE,
     ai_play_success_retry_count |-> 0, sent |-> 0]

\* while not ai_play_success and ai_play_success_retry_count < 5
LoopGoesOn(d) ==
    ~d.ai_play_success /\ d.ai_play_success_retry_count < RetryLimit

(***************************************************************************)
(* The requests.                                                           *)
(***************************************************************************)
Init ==
    /\ game = NoGame
    /\ players = <<>>
    /\ history = <<>>
    /\ created = 0
    /\ inflight = [r \in Requests |-> Idle]
    /\ lastOp = "none"
    /\ input = <<>>
    /\ status = 0
    /\ GAMES = NoGames
    /\ driver = AtRetryLoop

\* what the server does with every request: the handler's writes, and the answer
Served(op, body, res) ==
    \E r \in {res} :
        /\ Len(r.history) <= MaxHistory
        /\ game' = r.game
        /\ players' = r.players
        /\ history' = r.history
        /\ lastOp' = op
        /\ input' = body
        /\ status' = r.status

\* a request of any client
Respond(op, body, res) == Served(op, body, res) /\ UNCHANGED <<GAMES, driver>>

\* a request that creates no player and runs to its end
Answer(op, body, res) == Respond(op, body, res) /\ UNCHANGED <<created, inflight>>

\* POST /game, the body's turn among `turns` and its active among `actives`
CreateGameOf(turns, actives) ==
    \E t \in turns, a \in actives :
        /\ ~game.exists
        /\ Answer("create_game", <<>>,
                  Res(201,
                      [exists |-> TRUE, actual_turn |-> t, active |-> a,
                       current_player_id |-> None, phase |-> "AI",
                       successed_turns |-> 0],
                      players, history))

\* POST /game with the default active = True
CreateGame == CreateGameOf(GameTurns, {TRUE})

\* POST /player, the body's stats among `stats`
CreatePlayerOf(stats) ==
    \E st \in stats :
        /\ game.exists
        /\ created < MaxPlayers
        /\ created' = created + 1
        /\ UNCHANGED inflight
        /\ Respond("create_player", <<>>,
                   Res(201, game,
                       Append(players,
                              [id |-> created + 1, stats |-> st,
                               initiative |-> 0, order |-> 0,
                               hp |-> 100, mp |-> 50]),
                       history))

\* POST /game/{game_id}/roll_initiative, the die showing faces of `faces`
RollInitiativeOf(faces) ==
    \E draws \in [1..Len(players) -> faces] :
        Answer("roll_initiative", draws, roll_initiative(game, players, history, draws))

\* POST /game/{game_id}/ai_turn, the scenario lookup and the narrator's reply in `calls`
AiTurnOf(calls) ==
    \E call \in calls :
        Answer("ai_turn", <<>>, play_ai_turn(game, players, history, call[1], call[2]))

\* POST /game/{game_id}/ai_turn, the narrator's reply kept with the request
AiTurnHeardOf(calls) ==
    \E call \in calls :
        Answer("ai_turn", <<call[2]>>,
               play_ai_turn(game, players, history, call[1], call[2]))

\* POST /game/{game_id}/player_turn
PlayerTurnOf(ids, rolls) ==
    \E option_id \in ids, roll \in rolls :
        Answer("player_turn", <<option_id>>,
               play_player_turn(game, players, history, option_id, roll))

\* GET /game/{game_id}
GetGame ==
    Answer("get_game", <<>>,
           Res(IF game.exists THEN 200 ELSE 404, game, players, history))

\* GET /game/{game_id}/history
GetHistory ==
    Answer("get_history", <<>>,
           Res(IF game.exists THEN 200 ELSE 404, game, players, history))

\* DELETE /player/{player_id}
DeletePlayer ==
    \E player_id \in 1..MaxPlayers :
        Answer("delete_player", <<player_id>>,
               delete_player(game, players, history, player_id))

\* POST /game/{game_id}/player_turn, the draw kept with the request
PlayerTurnDrawnOf(ids, rolls) ==
    \E option_id \in ids, roll \in rolls :
        Answer("player_turn", <<option_id, roll>>,
               play_player_turn(game, players, history, option_id, roll))

\* POST /game/{game_id}/player_turn, stopped at crud.update_game
PlayerTurnCutOf(ids, rolls) ==
    \E option_id \in ids, roll \in rolls :
        /\ play_player_turn(game, players, history, option_id, roll).status = 200
        /\ Answer("player_turn", <<option_id>>,
                  play_player_turn_cut(game, players, history, option_id, roll))

\* POST /game/{game_id}/ai_turn, the narrator not answering
AiTurnAwaiting ==
    /\ ReachesNarrator(game, players, history, TRUE)
    /\ Answer("ai_turn", <<>>, play_ai_turn_awaiting(game, players, history))

\* a player_turn arrives: game = await crud.get_game(...), then the checks
PlayerTurnBegins(r, ids, rolls) ==
    \E option_id \in ids, roll \in rolls :
        /\ Admits(inflight, r)
        /\ IF PassesChecks(game, players)
           THEN /\ inflight' = [inflight EXCEPT ![r] =
                                    [Idle EXCEPT !.pc = "checked",
                                                 !.game = game,
                                                 !.players = players,
                                                 !.option_id = option_id]]
                /\ Respond("player_turn", <<option_id>>,
                           Res(NoAnswer, game, players, history))
           ELSE /\ UNCHANGED inflight
                /\ Respond("player_turn", <<option_id>>,
                           play_player_turn(game, players, history, option_id, roll))
        /\ UNCHANGED created

\* history_entries = await crud.get_history_by_game(...), then the choice is
\* resolved on the request's own Game object
PlayerTurnResolves(r, rolls) ==
    \E roll \in rolls :
        LET fl == inflight[r]
            res == play_player_turn(fl.game, fl.players, history, fl.option_id, roll)
        IN  /\ fl.pc = "checked"
            /\ IF res.status = 200
               THEN /\ inflight' = [inflight EXCEPT ![r] =
                                        [fl EXCEPT !.pc = "resolved",
                                                   !.entry = res.history[Len(res.history)],
                                                   !.after = res.game]]
                    /\ Respond("player_turn", <<fl.option_id>>,
                               Res(NoAnswer, game, players, history))
               ELSE /\ inflight' = [inflight EXCEPT ![r] = Idle]
                    /\ Respond("player_turn", <<fl.option_id>>,
                               Res(res.status, game, players, history))
            /\ UNCHANGED created

\* await crud.create_history_entry(db, history_entry)
PlayerTurnWrites(r) ==
    LET fl == inflight[r]
    IN  /\ fl.pc = "resolved"
        /\ inflight' = [inflight EXCEPT ![r] = [fl EXCEPT !.pc = "written"]]
        /\ Respond("player_turn", <<fl.option_id>>,
                   Res(NoAnswer, game, players,
                       create_history_entry(history, fl.entry)))
        /\ UNCHANGED created

\* await crud.update_game(db, game); return game
PlayerTurnUpdates(r) ==
    LET fl == inflight[r]
    IN  /\ fl.pc = "written"
        /\ inflight' = [inflight EXCEPT ![r] = Idle]
        /\ Respond("player_turn", <<fl.option_id>>,
                   Res(200, update_game(game, fl.game, fl.after), players, history))
        /\ UNCHANGED created

\* an ai_turn arrives: game = await crud.get_game(...), the checks, the
\* history written (turn 0) or read (later turns), then client.chat is called
AiTurnBegins(r, calls) ==
    \E reply \in {call[2] : call \in calls} :
        /\ Admits(inflight, r)
        /\ IF ReachesNarrator(game, players, history, TRUE)
           THEN /\ inflight' = [inflight EXCEPT ![r] =
                                    [Idle EXCEPT !.pc = "calling",
                                                 !.game = game,
                                                 !.players = players,
                                                 !.history = history]]
                /\ Respond("ai_turn", <<>>,
                           play_ai_turn_awaiting(game, players, history))
           ELSE /\ UNCHANGED inflight
                /\ Respond("ai_turn", <<>>,
                           play_ai_turn(game, players, history, TRUE, reply))
        /\ UNCHANGED created

\* response = await client.chat(...), the reply validated against what the
\* request has read, then await crud.create_history_entry(db, history_entry)
\* and the changes on the request's own Game object
AiTurnHears(r, calls) ==
    \E reply \in {call[2] : call \in calls} :
        LET fl == inflight[r]
            seen == play_ai_turn_awaiting(fl.game, fl.players, fl.history).history
            res == play_ai_turn(fl.game, fl.players, fl.history, TRUE, reply)
            written == SubSeq(res.history, Len(seen) + 1, Len(res.history))
        IN  /\ fl.pc = "calling"
            /\ IF res.status = 200
               THEN /\ inflight' = [inflight EXCEPT ![r] =
                                        [fl EXCEPT !.pc = "narrated",
                                                   !.after = res.game]]
                    /\ Respond("ai_turn", <<reply>>,
                               Res(NoAnswer, game, players, history \o written))
               ELSE /\ inflight' = [inflight EXCEPT ![r] = Idle]
                    /\ Respond("ai_turn", <<reply>>,
                               Res(res.status, game, players, history \o written))
            /\ UNCHANGED created

\* await crud.update_game(db, game); return game
AiTurnUpdates(r) ==
    LET fl == inflight[r]
    IN  /\ fl.pc = "narrated"
        /\ inflight' = [inflight EXCEPT ![r] = Idle]
        /\ Respond("ai_turn", <<>>,
                   Res(200, update_game(game, fl.game, fl.after), players, history))
        /\ UNCHANGED created

\* what every request of the in-memory engine does
Replied(op, body, out) ==
    /\ GAMES' = out.game
    /\ lastOp' = op
    /\ input' = body
    /\ status' = out.status
    /\ UNCHANGED <<game, players, history, created, inflight, driver>>

\* POST /games, the scenario known or not and the initial players among `lists`
PostGamesOf(lists) ==
    \E scenario_found \in BOOLEAN, initial_players \in lists :
        /\ ~GAMES.exists
        /\ Replied("create_game", <<initial_players>>,
                   create_game(GAMES, scenario_found, initial_players))

\* POST /games/{game_id}/join
PostJoinOf(characters) ==
    \E character \in characters :
        Replied("join_game", <<character>>, join_game(GAMES, character))

\* POST /games/{game_id}/action
PostActionOf(ids, replies) ==
    \E player_id \in ids, reply \in replies :
        /\ Len(GAMES.history) < MaxTurns
        /\ Replied("game_action", <<player_id>>,
                   game_action(GAMES, player_id, reply))

\* POST /games/{game_id}/choose, the d20 showing a face of `rolls`
PostChooseOf(ids, option_ids, rolls) ==
    \E player_id \in ids, option_id \in option_ids, roll \in rolls :
        /\ \A e \in 1..Len(GAMES.history) :
               \A i \in 1..Len(GAMES.history[e].options) :
                   /\ GAMES.history[e].options[i].health_point_change <= MaxPenalty
                   /\ GAMES.history[e].options[i].health_point_change >= -MaxPenalty
        /\ Replied("choose_option", <<player_id, option_id, roll>>,
                   choose_option(GAMES, player_id, option_id, roll))

\* the driver posts /game/{id}/ai_turn from its loop: resp.raise_for_status()
\* raises unless the answer is 200, and the except clauses print and go round
DriverPlaysAiTurnOf(calls) ==
    \E call \in calls :
        LET res == play_ai_turn(game, players, history, call[1], call[2])
        IN  /\ driver.pc = "ai_turn"
            /\ game.current_player_id # None
            /\ LoopGoesOn(driver)
            /\ driver.sent < MaxRequests
            /\ Served("ai_turn", <<>>, res)
            /\ driver' = [driver EXCEPT !.ai_play_success = (res.status = 200),
                                        !.sent = @ + 1]
            /\ UNCHANGED <<created, inflight, GAMES>>

\* the loop condition is false: the driver goes on to the history, or prints
\* "Failed to play AI turn after multiple attempts. Exiting." and returns
DriverLeavesLoop ==
    /\ driver.pc = "ai_turn"
    /\ ~LoopGoesOn(driver)
    /\ driver' = [driver EXCEPT
                      !.pc = IF driver.ai_play_success THEN "history" ELSE "exit"]
    /\ UNCHANGED <<game, players, history, created, inflight, lastOp, input,
                   status, GAMES>>

(***************************************************************************)
(* Spec: the turn engine under every narrator reply and every choice of    *)
(* the players; the players have no stats and the die shows one face, so   *)
(* the order of play is the order of arrival.                              *)
(***************************************************************************)
CreatePlayer == CreatePlayerOf({NoStats})

RollInitiative == RollInitiativeOf({10})

AiTurn == AiTurnOf(Calls(history))

PlayerTurn == PlayerTurnOf(1..3, Rolls)

Next ==
    \/ CreateGame
    \/ CreatePlayer
    \/ RollInitiative
    \/ AiTurn
    \/ PlayerTurn
    \/ GetGame
    \/ GetHistory

Spec == Init /\ [][Next]_vars

(***************************************************************************)
(* SpecInitiative: the initiative resolver under every stats and every     *)
(* face of Draws; the narrator then answers plainly and the players take   *)
(* the first option.                                                       *)
(***************************************************************************)
PlainCalls == {<<TRUE, Reply("json", Story(1, FALSE), << Opt(1, "attack", 100) >>)>>}

JoinGame == CreatePlayerOf(StatsChoices)

RollDice == RollInitiativeOf(Draws)

Narrate == AiTurnOf(PlainCalls)

TakeFirstOption == PlayerTurnOf({1}, {50})

NextInitiative ==
    \/ CreateGame
    \/ JoinGame
    \/ RollDice
    \/ Narrate
    \/ TakeFirstOption
    \/ GetGame

SpecInitiative == Init /\ [][NextInitiative]_vars

(***************************************************************************)
(* SpecRoster: players join and leave while the game is played.            *)
(***************************************************************************)
NextRoster ==
    \/ CreateGame
    \/ CreatePlayer
    \/ DeletePlayer
    \/ RollInitiative
    \/ Narrate
    \/ TakeFirstOption

SpecRoster == Init /\ [][NextRoster]_vars

(***************************************************************************)
(* SpecOutcome: the outcome of a choice, under options of several rates    *)
(* and effects and several draws; the narrator offers the same options at  *)
(* every turn, or answers text that is no JSON.                            *)
(***************************************************************************)
OutcomeOptions ==
    << OptWith(1, "strike", 29, -20, 10),
       OptWith(2, "flee", 0, 0, 0),
       OptWith(3, "rest", 100, 50, 60) >>

OutcomeCalls ==
    {<<TRUE, Reply("json", Story(1, FALSE), OutcomeOptions)>>,
     <<TRUE, Reply("garbage", Story(1, FALSE), <<>>)>>}

\* random.randint(1, 100): both ends, and the draw that equals the rate of "strike"
OutcomeRolls == {1, 29, 100}

NarrateOutcome == AiTurnOf(OutcomeCalls)

ResolveChoice == PlayerTurnDrawnOf(1..3, OutcomeRolls)

NextOutcome ==
    \/ CreateGame
    \/ CreatePlayer
    \/ RollInitiative
    \/ NarrateOutcome
    \/ ResolveChoice

SpecOutcome == Init /\ [][NextOutcome]_vars

(***************************************************************************)
(* SpecFaults: the turns with a handler that may stop half-way: the game   *)
(* update of a player_turn does not complete, or the narrator does not     *)
(* answer.                                                                 *)
(***************************************************************************)
PlayerTurnCut == PlayerTurnCutOf({1}, {50})

NextFaults ==
    \/ CreateGame
    \/ CreatePlayer
    \/ RollInitiative
    \/ Narrate
    \/ TakeFirstOption
    \/ PlayerTurnCut
    \/ AiTurnAwaiting

SpecFaults == Init /\ [][NextFaults]_vars

(***************************************************************************)
(* SpecNarrator: the turns with the narrator's reply on record: a call     *)
(* that raises, text that is neither JSON nor a Python literal, a Python   *)
(* literal, JSON with and without options, JSON with an empty narration,   *)
(* JSON with an option out of range, and a game whose scenario is gone.    *)
(***************************************************************************)
HeardReplies ==
    {Reply("raise", Story(1, FALSE), <<>>),
     Reply("garbage", Story(1, FALSE), <<>>),
     Reply("pyliteral", Story(2, TRUE), << Opt(1, "attack", 100) >>),
     Reply("json", Story(1, TRUE), << Opt(1, "attack", 100) >>),
     Reply("json", Story(2, FALSE), <<>>),
     Reply("json", Blank, << Opt(1, "attack", 100) >>),
     Reply("json", Story(1, FALSE), << Opt(1, "attack", 150) >>)}

HeardCalls ==
    {<<TRUE, r>> : r \in HeardReplies}
        \cup {<<FALSE, Reply("json", Story(1, TRUE), << Opt(1, "attack", 100) >>)>>}

AiTurnHeard == AiTurnHeardOf(HeardCalls)

NextNarrator ==
    \/ CreateGame
    \/ CreatePlayer
    \/ RollInitiative
    \/ AiTurnHeard
    \/ TakeFirstOption

SpecNarrator == Init /\ [][NextNarrator]_vars

(***************************************************************************)
(* SpecCycle: games that start at turn 0, active or not, and are played    *)
(* on; the narrator tells one of two stories with an option that always    *)
(* succeeds, or answers text that is no JSON.                              *)
(***************************************************************************)
\* Game.max_successed_turns, the target the progress message is computed from
MaxSuccessedTurns == 1

CycleCalls ==
    {<<TRUE, Reply("json", Story(1, FALSE), << Opt(1, "attack", 100) >>)>>,
     <<TRUE, Reply("json", Story(2, FALSE), << Opt(1, "attack", 100) >>)>>,
     <<TRUE, Reply("garbage", Story(1, FALSE), <<>>)>>}

OpenGame == CreateGameOf({0}, BOOLEAN)

NarrateCycle == AiTurnOf(CycleCalls)

ChooseCycle == PlayerTurnOf({1, 2}, {50})

NextCycle ==
    \/ OpenGame
    \/ CreatePlayer
    \/ RollInitiative
    \/ NarrateCycle
    \/ ChooseCycle

SpecCycle == Init /\ [][NextCycle]_vars

(***************************************************************************)
(* SpecRounds: a game set up the way the drivers do it: the players join,  *)
(* the initiative is rolled once, then ai_turn and player_turn follow each *)
(* other.                                                                  *)
(***************************************************************************)
JoinBeforeRoll == game.current_player_id = None /\ JoinGame

RollOnce == game.current_player_id = None /\ RollDice

NextRounds ==
    \/ OpenGame
    \/ JoinBeforeRoll
    \/ RollOnce
    \/ Narrate
    \/ TakeFirstOption

SpecRounds == Init /\ [][NextRounds]_vars

(***************************************************************************)
(* SpecConcurrent: two player_turn requests of one game, interleaved at    *)
(* their awaits; the other requests run to their end in one step.          *)
(***************************************************************************)
PlayerTurnArrives == \E r \in Requests : PlayerTurnBegins(r, {1}, {50})

PlayerTurnReads == \E r \in Requests : PlayerTurnResolves(r, {50})

PlayerTurnAppends == \E r \in Requests : PlayerTurnWrites(r)

PlayerTurnReturns == \E r \in Requests : PlayerTurnUpdates(r)

NextConcurrent ==
    \/ CreateGame
    \/ CreatePlayer
    \/ RollInitiative
    \/ Narrate
    \/ PlayerTurnArrives
    \/ PlayerTurnReads
    \/ PlayerTurnAppends
    \/ PlayerTurnReturns

SpecConcurrent == Init /\ [][NextConcurrent]_vars

(***************************************************************************)
(* SpecOverlap: two ai_turn requests of one game, interleaved at the       *)
(* narrator call and at the game update, under the narrator's replies of   *)
(* SpecCycle; the players' turns run to their end in one step.             *)
(***************************************************************************)
NextOverlap ==
    \/ OpenGame
    \/ CreatePlayer
    \/ RollInitiative
    \/ \E r \in Requests : AiTurnBegins(r, CycleCalls)
    \/ \E r \in Requests : AiTurnHears(r, CycleCalls)
    \/ \E r \in Requests : AiTurnUpdates(r)
    \/ TakeFirstOption

SpecOverlap == Init /\ [][NextOverlap]_vars

(***************************************************************************)
(* SpecLobby: the in-memory engine's games being filled: a game is created *)
(* with any initial players, too many included, and characters join, of    *)
(* the scenario's roles or not.                                            *)
(***************************************************************************)
LobbyCharacters ==
    {Character(1, "scout", NoStats, 100, 50),
     Character(2, "medic", NoStats, 100, 50),
     Character(3, "ghost", NoStats, 100, 50),
     Character(4, "scout", NoStats, 100, 50)}

InitialLists ==
    UNION {[1..n -> LobbyCharacters] : n \in 0..(Scenario.max_players + 1)}

NextLobby ==
    \/ PostGamesOf(InitialLists)
    \/ PostJoinOf(LobbyCharacters)

SpecLobby == Init /\ [][NextLobby]_vars

(***************************************************************************)
(* SpecMemory: the in-memory engine's turns: game_action under narrator    *)
(* replies of every kind and choose_option under both ends of the d20.     *)
(* The game has one character, either weak with hp and mp in range or of   *)
(* default stats with hp and mp out of range; a stranger sends requests    *)
(* too.                                                                    *)
(***************************************************************************)
Starters ==
    {<< Character(1, "scout", [k \in {"force"} |-> 2], 100, 50) >>,
     << Character(1, "medic", NoStats, 250, -20) >>}

MemoryReplies ==
    {Reply("json", Story(1, FALSE), << StoredOption(1, 40, -60, 70, "force") >>),
     Reply("wrapped", Story(2, FALSE), <<>>),
     Reply("json", Story(1, FALSE), << StoredOption(1, 40, -150, 0, "force") >>),
     Reply("pyliteral", Story(1, FALSE), <<>>),
     Reply("prose", Story(1, FALSE), <<>>),
     Reply("raise", Story(1, FALSE), <<>>)}

NextMemory ==
    \/ PostGamesOf(Starters)
    \/ PostActionOf(1..2, MemoryReplies)
    \/ PostChooseOf(1..2, 1..3, {1, 20})

SpecMemory == Init /\ [][NextMemory]_vars

(***************************************************************************)
(* SpecDriver: the driver's run: a game of the default turn, the players,  *)
(* the initiative, then the retry loop, under the narrator's replies and   *)
(* the missing scenario of SpecNarrator.                                   *)
(***************************************************************************)
NextDriver ==
    \/ CreateGameOf({0}, {TRUE})
    \/ JoinBeforeRoll
    \/ RollOnce
    \/ DriverPlaysAiTurnOf(HeardCalls)
    \/ DriverLeavesLoop

SpecDriver == Init /\ [][NextDriver]_vars

(***************************************************************************)
(* Properties.                                                             *)
(***************************************************************************)
Last(s) == s[Len(s)]

Turn(op) == lastOp' = op

Dexterity(p) == IF "dexterity" \in DOMAIN p.stats THEN p.stats["dexterity"] ELSE 0

\* the last narrator-authored entry of h, when there is one
HasNarratorEntry(h) == \E i \in 1..Len(h) : h[i].action_role = "ASSISTANT"

LastNarratorEntry(h) ==
    h[CHOOSE i \in 1..Len(h) :
          /\ h[i].action_role = "ASSISTANT"
          /\ \A j \in (i + 1)..Len(h) : h[j].action_role # "ASSISTANT"]

\* C1: phase changes only in a turn that succeeds: a successful ai_turn takes it
\* from AI to PLAYER and a successful player_turn from PLAYER to AI; a game starts
\* in AI, and no other request (roll_initiative, a read, a failed turn) changes it.
PhaseAlternates ==
    [][/\ game'.phase # game.phase =>
             \/ Turn("ai_turn") /\ status' = 200
             \/ Turn("player_turn") /\ status' = 200
       /\ Turn("ai_turn") /\ status' = 200 =>
             game.phase = "AI" /\ game'.phase = "PLAYER"
       /\ Turn("player_turn") /\ status' = 200 =>
             game.phase = "PLAYER" /\ game'.phase = "AI"
       /\ Turn("create_game") => game'.phase = "AI"]_vars

\* three turns have succeeded in a row: AI, PLAYER, AI
PhaseAlternatesWitness ==
    /\ lastOp = "ai_turn" /\ status = 200
    /\ game.actual_turn = 2 /\ game.phase = "PLAYER"
    /\ Len(history) >= 3 /\ history[Len(history) - 1].action_role = "USER"

FailedFirstTurnLeavesNoTrace ==
    [][/\ Turn("ai_turn") /\ status' = 500
       /\ game.exists /\ game.phase = "AI" /\ game.actual_turn = 0
       /\ HasPlayer(players, game.current_player_id)
       => game' = game /\ history' = history]_vars

\* C4: a turn that fails, whatever the stage, leaves the game's phase and turn
\* as they were.
FailedTurnKeepsPhaseAndTurn ==
    [][(Turn("ai_turn") \/ Turn("player_turn")) /\ status' # 200 =>
           /\ game'.phase = game.phase
           /\ game'.actual_turn = game.actual_turn]_vars

\* a first ai_turn failed after its prompt was written
FailedTurnWitness ==
    /\ lastOp = "ai_turn" /\ status = 500
    /\ game.actual_turn = 0 /\ game.phase = "AI"
    /\ history # <<>> /\ Last(history).narration.kind = "prompt"

\* C5: a player_turn whose option_id is not among the options of the last
\* history entry (no entry, no options, or no option of that id, whatever the
\* earlier entries offered) fails and leaves game, players and history as they were.
ChoiceOutsideLastEntryFails ==
    [][/\ Turn("player_turn")
       /\ \/ history = <<>>
          \/ \A i \in 1..Len(Last(history).options) :
                 Last(history).options[i].id # input'[1]
       => status' # 200 /\ UNCHANGED <<game, players, history>>]_vars

\* option 2 was refused in the PLAYER phase: an earlier entry offered it, the
\* last one does not
ChoiceOutsideLastEntryWitness ==
    /\ lastOp = "player_turn" /\ status = 400 /\ input = <<2>>
    /\ game.phase = "PLAYER"
    /\ \E i \in 1..(Len(history) - 1) : HasOption(history[i].options, 2)
    /\ Last(history).options # <<>>
    /\ ~HasOption(Last(history).options, 2)

\* C6: after the first turn, an ai_turn never records a narrator entry without
\* options: a reply whose options are empty is refused.
EmptyOptionsRejected ==
    [][Turn("ai_turn") /\ game.actual_turn > 0 /\ history' # history =>
           Last(history').options # <<>>]_vars

\* C7: after the first turn, an ai_turn never records a narration that is, case
\* aside, the narration of the narrator's previous entry.
RepeatedNarrationRejected ==
    [][/\ Turn("ai_turn") /\ game.actual_turn > 0 /\ history' # history
       /\ HasNarratorEntry(history)
       => Lower(Last(history').narration)
              # Lower(LastNarratorEntry(history).narration)]_vars

\* C8: right after a successful roll_initiative the orders of the N players are
\* 1..N, each once.
OrdersArePermutation ==
    lastOp = "roll_initiative" /\ status = 200 =>
        /\ Len(players) >= 1
        /\ {players[i].order : i \in 1..Len(players)} = 1..Len(players)
        /\ \A i, j \in 1..Len(players) :
               players[i].order = players[j].order => i = j

\* two players were rolled and the later one plays first
OrdersArePermutationWitness ==
    /\ lastOp = "roll_initiative" /\ status = 200
    /\ Len(players) = 2
    /\ players[1].order = 2 /\ players[2].order = 1

\* C9: right after a successful roll_initiative every initiative is its draw
\* (1..20) plus the player's dexterity (0 without one), a player ordered before
\* another has no lower initiative, and equal initiatives keep the input order.
InitiativeOrdersPlayers ==
    lastOp = "roll_initiative" /\ status = 200 =>
        /\ \A i \in 1..Len(players) :
               /\ input[i] \in 1..20
               /\ players[i].initiative = input[i] + Dexterity(players[i])
        /\ \A i, j \in 1..Len(players) :
               players[i].order < players[j].order =>
                   players[i].initiative >= players[j].initiative
        /\ \A i, j \in 1..Len(players) :
               i < j /\ players[i].initiative = players[j].initiative =>
                   players[i].order < players[j].order

\* the first player drew less than the second and plays first, by dexterity
InitiativeOrdersPlayersWitness ==
    /\ lastOp = "roll_initiative" /\ status = 200
    /\ Len(players) = 2
    /\ input[1] < input[2]
    /\ Dexterity(players[1]) > Dexterity(players[2])
    /\ players[1].order = 1 /\ players[2].order = 2

\* C10: right after a successful roll_initiative the current player is the
\* order-1 player, who has the highest initiative; it still is in the first
\* PLAYER phase, and the first player action is that player's.
FirstActorIsOrderOne ==
    LET current == FindPlayer(players, game.current_player_id)
        first == game.exists /\ game.actual_turn = 1
    IN  /\ lastOp = "roll_initiative" /\ status = 200 =>
              /\ HasPlayer(players, game.current_player_id)
              /\ current.order = 1
              /\ \A i \in 1..Len(players) : current.initiative >= players[i].initiative
        /\ first /\ game.phase = "PLAYER" =>
              /\ HasPlayer(players, game.current_player_id)
              /\ current.order = 1
        /\ first /\ lastOp = "player_turn" /\ status = 200 =>
              /\ HasPlayer(players, Last(history).player_id)
              /\ FindPlayer(players, Last(history).player_id).order = 1

\* the first player action was taken by the player created second
FirstActorIsOrderOneWitness ==
    /\ game.actual_turn = 1
    /\ lastOp = "player_turn" /\ status = 200
    /\ Last(history).player_id = 2
    /\ Len(players) = 2

\* the option a player_turn is about: the one of the request's id among the
\* pending options
Chosen == ChosenOption(Last(history).options, input'[1])

\* the outcome a player_turn has computed, as its sentence tells it
Outcome == Last(history').narration.ok

Clamp(x, lo, hi) == IF x < lo THEN lo ELSE IF x > hi THEN hi ELSE x

\* the player of that order
PlayerOfOrder(ps, o) == ps[CHOOSE i \in 1..Len(ps) : ps[i].order = o]

\* every player has been given an order by the same roll
AllOrdered(ps) ==
    /\ {ps[i].order : i \in 1..Len(ps)} = 1..Len(ps)
    /\ \A i, j \in 1..Len(ps) : ps[i].order = ps[j].order => i = j

\* C11: whenever the game's current_player_id is set, it is the id of a player
\* of the game, whatever players were created or deleted since.
CurrentPlayerExists ==
    game.current_player_id # None => HasPlayer(players, game.current_player_id)

\* C12: successed_turns never decreases; it changes only in a player_turn that
\* is answered 200 and whose computed outcome is a success, and then by one.
SuccessfulTurnsCount ==
    [][game.exists =>
           /\ game'.successed_turns >= game.successed_turns
           /\ game'.successed_turns # game.successed_turns =>
                  /\ Turn("player_turn") /\ status' = 200
                  /\ game'.successed_turns = game.successed_turns + 1
                  /\ history' # history /\ Outcome]_vars

\* one choice has failed and one has succeeded, and the count is 1
SuccessfulTurnsCountWitness ==
    /\ lastOp = "player_turn" /\ status = 200
    /\ game.successed_turns = 1
    /\ \E i \in 1..Len(history) :
           history[i].narration.kind = "choice" /\ ~history[i].narration.ok
    /\ \E i \in 1..Len(history) :
           history[i].narration.kind = "choice" /\ history[i].narration.ok

\* C13: the outcome of a player_turn on an option of rate r (in hundredths:
\* r x 100) with the draw d is a success exactly when d <= r x 100.
OutcomeFollowsRate ==
    [][Turn("player_turn") /\ status' = 200 =>
           (Outcome <=> input'[2] <= Chosen.success_rate)]_vars

\* C14: the entry a player_turn appends has the role USER, the acting player,
\* no options, and the computed outcome as its success flag.
PlayerEntryRecordsOutcome ==
    [][Turn("player_turn") /\ status' = 200 =>
           /\ Len(history') = Len(history) + 1
           /\ Last(history').action_role = "USER"
           /\ Last(history').player_id = game.current_player_id
           /\ Last(history').options = <<>>
           /\ Last(history').success = Outcome]_vars

\* C15: a player_turn whose outcome is a success adds the option's health and
\* mana changes (x 100) to the acting player's hp and mp, kept within 0..100,
\* and leaves the other players' hp and mp as they were.
SuccessAppliesOptionEffects ==
    [][Turn("player_turn") /\ status' = 200 /\ Outcome =>
           /\ Len(players') = Len(players)
           /\ \A i \in 1..Len(players) :
                  IF players[i].id = game.current_player_id
                  THEN /\ players'[i].hp =
                              Clamp(players[i].hp + Chosen.health_point_change, 0, 100)
                       /\ players'[i].mp =
                              Clamp(players[i].mp + Chosen.mana_point_change, 0, 100)
                  ELSE /\ players'[i].hp = players[i].hp
                       /\ players'[i].mp = players[i].mp]_vars

PlayerTurnIsAtomic ==
    history # <<>> /\ Last(history).narration.kind = "choice" => game.phase = "AI"

\* C18: while the narrator has not answered, an ai_turn has written nothing:
\* the history and the game are as they were before the request.
NoWriteBeforeNarratorAnswers ==
    [][Turn("ai_turn") /\ status' = NoAnswer =>
           history' = history /\ game' = game]_vars

\* C19: a game just created is in phase AI, at turn 0, without a current
\* player, whatever the request body.
NewGameStartsAtTurnZero ==
    lastOp = "create_game" =>
        /\ game.phase = "AI"
        /\ game.actual_turn = 0
        /\ game.current_player_id = None

\* C20: once roll_initiative has given a player an order, no request changes
\* that player's initiative or order, and a later roll_initiative leaves the
\* current player as it was.
InitiativeSetOnce ==
    [][/\ \A i \in 1..Len(players) :
              players[i].order # 0 =>
                  /\ i <= Len(players')
                  /\ players'[i].initiative = players[i].initiative
                  /\ players'[i].order = players[i].order
       /\ Turn("roll_initiative") /\ game.current_player_id # None =>
              game'.current_player_id = game.current_player_id]_vars

\* the requests of the turn engine
TurnEngine == Turn("roll_initiative") \/ Turn("ai_turn") \/ Turn("player_turn")

\* h begins with the entries of g, unchanged and in the same order
Extends(h, g) == Len(h) >= Len(g) /\ \A i \in 1..Len(g) : h[i] = g[i]

\* C21: after the first turn, an ai_turn whose narrator has answered text that
\* no parser reads still succeeds, on a recovered or synthesized narration.
UnparseableReplyRecovered ==
    [][/\ Turn("ai_turn") /\ game.exists /\ game.phase = "AI"
       /\ game.actual_turn > 0 /\ history # <<>>
       /\ input'[1].format = "garbage"
       => status' = 200 /\ Len(history') = Len(history) + 1]_vars

\* C22: roll_initiative, ai_turn and player_turn, answered 200 or not, leave
\* the entries of the history as they were and only append; the narrator entry
\* of an ai_turn has the narration and the options of the narrator's reply.
HistoryAppendOnly ==
    [][TurnEngine =>
           /\ Extends(history', history)
           /\ Turn("ai_turn") /\ status' = 200 =>
                  /\ history' # history
                  /\ Last(history').action_role = "ASSISTANT"
                  /\ Last(history').narration = input'[1].narration
                  /\ Last(history').options = input'[1].options]_vars

\* a second narrator entry was appended from a reply with upper-case letters,
\* after a player's entry
HistoryAppendOnlyWitness ==
    /\ lastOp = "ai_turn" /\ status = 200
    /\ game.actual_turn = 2
    /\ input[1].narration.upper
    /\ Last(history).narration = input[1].narration
    /\ Len(history) >= 4 /\ history[Len(history) - 1].action_role = "USER"

\* C23: in the PLAYER phase a player_turn for the id of an option of the last
\* entry is answered 200 with the game in phase AI.
OfferedOptionAccepted ==
    [][/\ Turn("player_turn") /\ game.exists /\ game.phase = "PLAYER"
       /\ history # <<>> /\ HasOption(Last(history).options, input'[1])
       => status' = 200 /\ game'.phase = "AI"]_vars

\* C28: in the PLAYER phase the last entry is a narrator entry that offers at
\* least one option.
PlayerPhaseHasOptions ==
    game.exists /\ game.phase = "PLAYER" =>
        /\ history # <<>>
        /\ Last(history).action_role = "ASSISTANT"
        /\ Last(history).options # <<>>

\* the entries of h that players' choices have written, and the narrator's
Choices(h) == {i \in 1..Len(h) : h[i].narration.kind = "choice"}

NarratorEntries(h) == {i \in 1..Len(h) : h[i].action_role = "ASSISTANT"}

\* the player of the latest choice in h
LastActor(h) ==
    h[CHOOSE i \in Choices(h) : \A j \in Choices(h) : j <= i].player_id

RotationByOrder ==
    [][Turn("player_turn") /\ status' = 200 /\ Choices(history) # {} =>
           FindPlayer(players, game.current_player_id).order
               = (FindPlayer(players, LastActor(history)).order % Len(players)) + 1]_vars

\* C27: nobody is left out: once a game of two or more players has had as many
\* player turns as it has players, every player has acted.
EveryPlayerActs ==
    Len(players) >= 2 /\ Cardinality(Choices(history)) >= Len(players) =>
        \A p \in 1..Len(players) :
            \E i \in Choices(history) : history[i].player_id = players[p].id

\* C29: after every roll_initiative, ai_turn and player_turn, answered 200 or
\* not, the phase is PLAYER exactly when the last entry is the narrator's, and
\* in the AI phase after turn 0 the last entry is a player's USER entry without
\* options.
PhaseMatchesLastEntry ==
    game.exists /\ lastOp \in {"roll_initiative", "ai_turn", "player_turn"} =>
        /\ game.phase = "PLAYER" <=>
               (history # <<>> /\ Last(history).action_role = "ASSISTANT")
        /\ game.phase = "AI" /\ game.actual_turn > 0 =>
               /\ history # <<>>
               /\ Last(history).action_role = "USER"
               /\ Last(history).player_id # None
               /\ Last(history).options = <<>>

\* C30: in a game created at turn 0 the turn is the number of narrator
\* entries, after every request, and a player_turn keeps the turn.
TurnCountsNarratorEntries ==
    [][/\ game'.exists =>
              game'.actual_turn = Cardinality(NarratorEntries(history'))
       /\ Turn("player_turn") => game'.actual_turn = game.actual_turn]_vars

\* two narrator entries at turn 2, after a first turn that failed once
TurnCountsNarratorEntriesWitness ==
    /\ lastOp = "ai_turn" /\ status = 200
    /\ game.actual_turn = 2
    /\ Cardinality(NarratorEntries(history)) = 2
    /\ Cardinality({i \in 1..Len(history) : history[i].narration.kind = "prompt"}) = 2

\* C25: two player_turn requests of a game are not coordinated: while one is
\* in flight the other is still let in and passes the phase check as long as
\* the stored phase is PLAYER, and a request that has resolved its choice
\* against the pending options appends its entry whatever the other has
\* written since.
PlayerTurnsNotCoordinated ==
    \A r \in Requests :
        /\ /\ inflight[r].pc = "idle"
           /\ PassesChecks(game, players)
           => ENABLED (PlayerTurnArrives /\ inflight'[r].pc = "checked")
        /\ /\ inflight[r].pc = "resolved"
           /\ Len(history) < MaxHistory
           => ENABLED (PlayerTurnAppends /\ inflight'[r].pc = "written")

\* both requests have resolved option 1 of the same narrator entry and both
\* have appended their USER entry
PlayerTurnsNotCoordinatedWitness ==
    /\ Len(history) >= 3
    /\ history[Len(history) - 2].action_role = "ASSISTANT"
    /\ history[Len(history) - 1].narration.kind = "choice"
    /\ Last(history).narration.kind = "choice"
    /\ \A r \in Requests : inflight[r].pc = "written"

\* no request of the game is in flight
Quiet == \A r \in Requests : inflight[r].pc = "idle"

\* C31: ai_turn requests that overlap keep the turn in step with the history:
\* once they have all returned, the turn of a game created at turn 0 is the
\* number of narrator entries, and no two narrator entries follow each other.
OverlappingAiTurnsConsistent ==
    game.exists /\ Quiet =>
        /\ game.actual_turn = Cardinality(NarratorEntries(history))
        /\ \A i \in 1..(Len(history) - 1) :
               ~ /\ history[i].action_role = "ASSISTANT"
                 /\ history[i + 1].action_role = "ASSISTANT"

\* C32: the play starts with the initiative: only a roll_initiative answered
\* 200 sets the current player, no ai_turn is answered 200 while there is none,
\* and at turn 0 such an ai_turn stops before the narrator is called and
\* leaves the game and the history as they were.
NoAiTurnBeforeInitiative ==
    [][/\ game.current_player_id = None /\ game'.current_player_id # None
          => Turn("roll_initiative") /\ status' = 200
       /\ Turn("ai_turn") /\ game.current_player_id = None =>
              /\ status' # 200
              /\ game.exists /\ game.actual_turn = 0 =>
                     /\ status' \in {404, 500}
                     /\ game' = game
                     /\ history' = history
                     /\ \A scenario \in BOOLEAN :
                            ~ReachesNarrator(game, players, history, scenario)]_vars

\* an ai_turn of a game at turn 0 with a scenario and a player, before any
\* roll_initiative, was answered 500 with nothing written
NoAiTurnBeforeInitiativeWitness ==
    /\ lastOp = "ai_turn" /\ status = 500
    /\ game.exists /\ game.actual_turn = 0 /\ game.phase = "AI"
    /\ game.current_player_id = None
    /\ players # <<>>
    /\ history = <<>>

\* C33: the messages an ai_turn after the first builds from a history that
\* is not empty are one per entry with a narration, in the order of the
\* entries and with their roles; the roles alternate from USER on, and the
\* last message is a USER message with the instructions.
PromptAlternates ==
    [][/\ Turn("ai_turn") /\ game.exists /\ IsAiPhase(game)
       /\ game.actual_turn > 0 /\ history # <<>>
       => LET messages == Messages(get_history_by_game(history))
          IN  /\ messages # <<>>
              /\ \A i \in 1..Len(messages) :
                     messages[i].role = IF i % 2 = 1 THEN "USER" ELSE "ASSISTANT"
              /\ Last(messages).role = "USER"
              /\ Last(messages).instructions]_vars

\* the character of the in-memory game that a request names
Acting(g, player_id) == g.players[FirstCharacter(g.players, player_id)]

\* C34: in the in-memory engine, after every choose_option answered 200 the
\* hp and the mp of the acting character are within 0..100.
ChoiceKeepsPointsInRange ==
    [][Turn("choose_option") /\ status' = 200 =>
           /\ Acting(GAMES', input'[1]).hp >= 0
           /\ Acting(GAMES', input'[1]).hp <= 100
           /\ Acting(GAMES', input'[1]).mp >= 0
           /\ Acting(GAMES', input'[1]).mp <= 100]_vars

\* a failed roll has taken the hp to the floor and the mp to the ceiling
ChoiceKeepsPointsInRangeWitness ==
    /\ lastOp = "choose_option" /\ status = 200
    /\ Last(GAMES.history).dice_roll.rolled
    /\ ~Last(GAMES.history).dice_roll.success
    /\ Acting(GAMES, input[1]).hp = 0
    /\ Acting(GAMES, input[1]).mp = 100

\* C35: in the in-memory engine a choose_option, repeated or with a failed
\* roll, leaves the options of every history entry as the narrator gave them,
\* with their rates and changes within the validated ranges.
ChoiceKeepsHistoryOptions ==
    [][Turn("choose_option") =>
           /\ Len(GAMES'.history) = Len(GAMES.history)
           /\ \A e \in 1..Len(GAMES.history) :
                  /\ GAMES'.history[e].options = GAMES.history[e].options
                  /\ \A i \in 1..Len(GAMES'.history[e].options) :
                         OptionValid(GAMES'.history[e].options[i])]_vars

\* C36: in the in-memory engine the turn is the number of history entries;
\* a game_action that is not answered 200 changes neither, and a
\* choose_option changes neither the turn nor the number of entries.
TurnCountsHistory ==
    [][/\ GAMES'.turn = Len(GAMES'.history)
       /\ Turn("game_action") /\ status' # 200 =>
              GAMES'.turn = GAMES.turn /\ GAMES'.history = GAMES.history
       /\ Turn("choose_option") =>
              /\ GAMES'.turn = GAMES.turn
              /\ Len(GAMES'.history) = Len(GAMES.history)]_vars

\* a game_action has failed at turn 1, after an action and a choice
TurnCountsHistoryWitness ==
    /\ lastOp = "game_action" /\ status = 500
    /\ GAMES.turn = 1
    /\ Len(GAMES.history) = 1
    /\ GAMES.history[1].chosen_option # None

\* C37: in the in-memory engine a game never has more players than its
\* scenario's max_players; a join_game of a full game, or with a role the
\* scenario does not define, is refused and leaves the game as it was.
PlayersWithinMaximum ==
    [][/\ Len(GAMES'.players) <= Scenario.max_players
       /\ /\ Turn("join_game") /\ GAMES.exists
          /\ \/ Len(GAMES.players) >= Scenario.max_players
             \/ input'[1].role \notin Scenario.roles
          => status' = 400 /\ GAMES' = GAMES]_vars

\* a character of a role of the scenario was refused by a full game
PlayersWithinMaximumWitness ==
    /\ lastOp = "join_game" /\ status = 400
    /\ Len(GAMES.players) = Scenario.max_players
    /\ input[1].role \in Scenario.roles

\* C38: the driver's retry loop is bounded: it posts at most 5 ai_turn
\* requests, and when all of them have failed it has left the loop.
DriverRetriesBounded ==
    /\ driver.sent <= RetryLimit
    /\ driver.sent = RetryLimit /\ ~driver.ai_play_success => ~LoopGoesOn(driver)

====
